---- MODULE Spec2Model ----
(***************************************************************************)
(* Model of src/plugins/vfox_plugin.rs (mise): the vfox plugin source      *)
(* resolver (get_repo_url, vfox_to_url) and the plugin lifecycle           *)
(* (install, update, uninstall, ensure_installed) over one install path.   *)
(*                                                                         *)
(* Strings are sequences of tokens.  A token is either a single            *)
(* punctuation character ("/", ".", "#", "~", ":", "@") or a word of       *)
(* characters [a-z0-9.-] starting with a letter that is never split, so    *)
(* every string has exactly one token sequence and equality of token       *)
(* sequences is equality of strings.                                       *)
(***************************************************************************)
EXTENDS Integers, Sequences, FiniteSets, TLC

(***************************************************************************)
(* Bounds                                                                  *)
(***************************************************************************)
\* threads that call into one VfoxPlugin
NThreads == 2
\* longest generated plugin name, in tokens
MaxLen == 4
\* deepest nesting of vfox_to_url calls that is followed
MaxDepth == 3

(***************************************************************************)
(* Strings                                                                 *)
(***************************************************************************)
Word == {"a", "b", "bun", "vfox", "vfox-", "version-fox", "https", "github.com",
         "git", "v1", "local", "plugin"}

\* tokens of generated plugin names
Alphabet == {"a", "vfox-", "bun", "/", ".", "#", "~"}

RECURSIVE IndexFrom(_, _, _)
IndexFrom(s, t, i) ==
    IF i > Len(s) THEN 0
    ELSE IF s[i] = t THEN i
    ELSE IndexFrom(s, t, i + 1)

\* str::find of a one-character pattern: index of the first t, or 0
IndexOf(s, t) == IndexFrom(s, t, 1)

Count(s, t) == Cardinality({i \in 1..Len(s) : s[i] = t})

Drop(s, n) == SubSeq(s, n + 1, Len(s))

Take(s, n) == SubSeq(s, 1, n)

RECURSIVE trim_start_matches(_, _)
\* str::trim_start_matches: removes the prefix repeatedly
trim_start_matches(s, t) ==
    IF Len(s) > 0 /\ s[1] = t THEN trim_start_matches(Tail(s), t) ELSE s

\* Option<String> and Result<Url>
None == [some |-> FALSE, val |-> <<>>]
Some(s) == [some |-> TRUE, val |-> s]
Ok(s) == [ok |-> TRUE, val |-> s, err |-> "none"]
Err(e) == [ok |-> FALSE, val |-> <<>>, err |-> e]

\* str::split_once(c): the parts before and after the first c
split_once(s, c) ==
    LET i == IndexOf(s, c) IN
    IF i = 0 THEN [some |-> FALSE, fst |-> s, snd |-> <<>>]
    ELSE [some |-> TRUE, fst |-> Take(s, i - 1), snd |-> Drop(s, i)]

(***************************************************************************)
(* Url::parse followed by Url::as_str (the url crate, WHATWG URL parsing). *)
(***************************************************************************)
RECURSIVE SplitSegments(_)
\* the "/"-separated segments of a path that follows its leading "/"
SplitSegments(s) ==
    LET i == IndexOf(s, "/") IN
    IF i = 0 THEN <<s>>
    ELSE <<Take(s, i - 1)>> \o SplitSegments(Drop(s, i))

IsSingleDot(seg) == seg = <<".">>
IsDoubleDot(seg) == seg = <<".", ".">>

RECURSIVE NormalizeFrom(_, _, _)
\* the path state of the URL parser: "." is skipped, ".." removes the
\* segment before it, and either of them in last place leaves an empty one
NormalizeFrom(segs, i, out) ==
    IF i > Len(segs) THEN out
    ELSE LET seg == segs[i]
             last == i = Len(segs)
             popped == IF Len(out) > 0 THEN Take(out, Len(out) - 1) ELSE out
         IN  IF IsDoubleDot(seg)
             THEN NormalizeFrom(segs, i + 1, IF last THEN Append(popped, <<>>) ELSE popped)
             ELSE IF IsSingleDot(seg)
             THEN NormalizeFrom(segs, i + 1, IF last THEN Append(out, <<>>) ELSE out)
             ELSE NormalizeFrom(segs, i + 1, Append(out, seg))

RECURSIVE JoinPath(_)
JoinPath(segs) ==
    IF segs = <<>> THEN <<>> ELSE <<"/">> \o Head(segs) \o JoinPath(Tail(segs))

\* a hierarchical path ("" or "/..."), normalized and serialized
NormalizePath(p) ==
    IF p = <<>> THEN <<>>
    ELSE JoinPath(NormalizeFrom(SplitSegments(Tail(p)), 1, <<>>))

RECURSIVE SkipSlashes(_)
SkipSlashes(s) == IF Len(s) > 0 /\ s[1] = "/" THEN SkipSlashes(Tail(s)) ELSE s

\* the scheme state: a letter, then [a-z0-9+.-]*, then ":"
HasScheme(s) ==
    LET i == IndexOf(s, ":") IN
    /\ i > 1
    /\ s[1] \in Word
    /\ \A k \in 1..(i - 1) : s[k] \in Word \cup {"."}

IsSpecial(scheme) == scheme = <<"https">>

\* s up to (not including) its first "/" after position 0, or all of s
UpToSlash(s) == LET i == IndexOf(s, "/") IN IF i = 0 THEN s ELSE Take(s, i - 1)

FromSlash(s) == LET i == IndexOf(s, "/") IN IF i = 0 THEN <<>> ELSE Drop(s, i - 1)

\* host[:port]: an empty port is dropped, a port that is not a number is an error
ParseHostPort(auth, special) ==
    LET hp == split_once(auth, ":") IN
    IF special /\ hp.fst = <<>> THEN Err("EmptyHost")
    ELSE IF hp.some /\ hp.snd # <<>> THEN Err("InvalidPort")
    ELSE Ok(hp.fst)

UrlParse(s) ==
    IF ~HasScheme(s) THEN Err("RelativeUrlWithoutBase")
    ELSE
    LET sc     == split_once(s, ":")
        scheme == sc.fst
        fr     == split_once(sc.snd, "#")
        body   == fr.fst
        frag   == IF fr.some THEN <<"#">> \o fr.snd ELSE <<>>
    IN  IF IsSpecial(scheme)
        THEN LET rest == SkipSlashes(body)
                 host == ParseHostPort(UpToSlash(rest), TRUE)
                 path == FromSlash(rest)
             IN  IF ~host.ok THEN host
                 ELSE Ok(scheme \o <<":", "/", "/">> \o host.val
                         \o NormalizePath(IF path = <<>> THEN <<"/">> ELSE path)
                         \o frag)
        ELSE IF Len(body) >= 2 /\ body[1] = "/" /\ body[2] = "/"
        THEN LET rest == Drop(body, 2)
                 host == ParseHostPort(UpToSlash(rest), FALSE)
             IN  IF ~host.ok THEN host
                 ELSE Ok(scheme \o <<":", "/", "/">> \o host.val
                         \o NormalizePath(FromSlash(rest)) \o frag)
        ELSE IF Len(body) >= 1 /\ body[1] = "/"
        THEN Ok(scheme \o <<":">> \o NormalizePath(body) \o frag)
        \* an opaque path is kept as written
        ELSE Ok(s)

(***************************************************************************)
(* registry::REGISTRY_VFOX: alias -> "<kind>:<owner>/<repo>"               *)
(***************************************************************************)
Registry ==
    (<<"bun">> :> <<"vfox", ":", "version-fox", "/", "vfox-", "bun">>)
    @@ (<<"a">> :> <<"vfox", ":", "version-fox", "/", "a">>)

GitHub == <<"https", ":", "/", "/", "github.com", "/">>

\* regex ^([^/]+)/([^/]+)$ : exactly one "/", with something on both sides
IsShorthand(s) ==
    /\ Count(s, "/") = 1
    /\ IndexOf(s, "/") > 1
    /\ IndexOf(s, "/") < Len(s)

\* shorthand_or_parse with user and repo exchanged in the format! of line 263
shorthand_or_parse_swapped(s) ==
    LET res == IF IsShorthand(s)
               THEN LET caps == split_once(s, "/") IN
                    UrlParse(GitHub \o caps.snd \o <<"/">> \o caps.fst)
               ELSE UrlParse(s)
    IN  IF res.ok THEN res ELSE Err("InvalidVersion")

\* vfox_to_url below the registry lookup: the owner/repo shorthand, or the
\* name parsed as a URL; a parse error is wrapped as "Invalid version"
shorthand_or_parse(s) ==
    LET res == IF IsShorthand(s)
               THEN LET caps == split_once(s, "/") IN
                    UrlParse(GitHub \o caps.fst \o <<"/">> \o caps.snd)
               ELSE UrlParse(s)
    IN  IF res.ok THEN res ELSE Err("InvalidVersion")

\* vfox_to_url that resolves the whole registry entry, not the part after ":"
vfox_to_url_at_unsplit(s, depth) ==
    LET key == trim_start_matches(s, "vfox-") IN
    IF key \in DOMAIN Registry
    THEN shorthand_or_parse(Registry[key])
    ELSE shorthand_or_parse(s)

RECURSIVE vfox_to_url_at(_, _)
\* vfox_to_url at a nesting depth: a registry hit recurses on the payload
\* after the first ":" (unwrap panics when there is none)
vfox_to_url_at(s, depth) ==
    LET key == trim_start_matches(s, "vfox-") IN
    IF key \in DOMAIN Registry
    THEN LET full == split_once(Registry[key], ":") IN
         IF ~full.some THEN Err("Panic")
         ELSE IF depth >= MaxDepth THEN Err("Diverges")
         ELSE vfox_to_url_at(full.snd, depth + 1)
    ELSE shorthand_or_parse(s)

vfox_to_url(s) == vfox_to_url_at(s, 0)

(***************************************************************************)
(* The install path on disk and the remote repositories.                   *)
(*   link : the path itself is a symlink (kind is then that of its target) *)
(*   kind : "absent", "dir" (no .git), "repo" (a working copy), "partial"  *)
(*          (what a failed clone or removal left behind)                   *)
(***************************************************************************)
Disk(link, kind, remote, head) ==
    [link |-> link, kind |-> kind, remote |-> remote, head |-> head]

Absent == Disk(FALSE, "absent", None, "none")
Partial == Disk(FALSE, "partial", None, "none")
WorkingCopy(remote, head) == Disk(FALSE, "repo", remote, head)

Repo_a_bun == GitHub \o <<"a", "/", "bun">>
Repo_vfox_bun == GitHub \o <<"version-fox", "/", "vfox-", "bun">>
Ssh_a_bun == <<"git", "@", "github.com", ":", "a", "/", "bun">>

\* URLs git can clone or fetch from
KnownRepos == {Repo_a_bun, Repo_vfox_bun, Ssh_a_bun}

\* the tags of the remotes; their default-branch tip is "t1", then "t2"
RefRev == (<<"v1">> :> "c1")

\* Path::exists follows symlinks
exists(f) == f.kind # "absent"
is_symlink(f) == f.link
\* Git::is_repo
is_repo(f) == f.kind = "repo"

\* Git::get_remote_url: the configured remote of a working copy, else None
Git_get_remote_url(f) == IF is_repo(f) THEN f.remote ELSE None

\* Git::split_url_and_ref: splits at the first "#"
split_url_and_ref(u) ==
    LET p == split_once(u, "#") IN
    [url |-> p.fst, ref |-> IF p.some THEN Some(p.snd) ELSE None]

\* Git::clone: outcomes are [ok, fs]
Git_clone(f, url, tip) ==
    IF exists(f) \/ is_symlink(f) THEN {[ok |-> FALSE, fs |-> f]}
    ELSE (IF url \in KnownRepos
          THEN {[ok |-> TRUE, fs |-> WorkingCopy(Some(url), tip)]} ELSE {})
         \cup {[ok |-> FALSE, fs |-> f], [ok |-> FALSE, fs |-> Partial]}

\* Git::update: fetch and check out gitref, or the tip when there is none
Git_update(f, gitref, tip) ==
    LET stay == {[ok |-> FALSE, fs |-> f]} IN
    IF ~is_repo(f) \/ ~f.remote.some THEN stay
    ELSE IF f.remote.val \notin KnownRepos THEN stay
    ELSE IF ~gitref.some THEN stay \cup {[ok |-> TRUE, fs |-> [f EXCEPT !.head = tip]]}
    ELSE IF gitref.val \in DOMAIN RefRev
    THEN stay \cup {[ok |-> TRUE, fs |-> [f EXCEPT !.head = RefRev[gitref.val]]]}
    ELSE stay

\* Git::current_sha_short
Git_current_sha_short(f) == IF is_repo(f) THEN Ok(<<f.head>>) ELSE Err("Repository")

\* file::remove_all
remove_all(f) ==
    {[ok |-> TRUE, fs |-> Absent], [ok |-> FALSE, fs |-> f]}
    \cup (IF f.link THEN {} ELSE {[ok |-> FALSE, fs |-> Partial]})

(***************************************************************************)
(* State                                                                   *)
(***************************************************************************)
VARIABLES
    name,   \* VfoxPlugin.name
    repo_url, \* VfoxPlugin.repo_url
    fs,     \* what is on disk at VfoxPlugin.plugin_path
    tip,    \* the default-branch tip of the remote repositories
    op,     \* the last operation called, with its argument in arg
    arg,
    pre,    \* fs when the last operation was called
    url,    \* what get_repo_url returned to the last operation
    ret,    \* what the last operation returned
    pr,     \* the calls the last operation made on its SingleReport
    git,    \* the git commands the last operation ran (for install, update and
            \* ensure_installed: those that change the working copy)
    prev,   \* the operation before the last one: its name, success and head
    checked, \* the disk when the last install made its rejected-URL check
    pc,     \* concurrent callers: where each thread is in its operation
    lock,   \* the owner of the Mutex<Git> VfoxPlugin.repo, or 0
    loc,    \* each thread's locals: the resolved url and the gitref argument
    tret,   \* what each thread's last operation returned
    index,    \* plugins::INSTALLED_PLUGINS: the (dir, plugin type) entries
    disabled, \* Settings.disable_tools
    cell,     \* the Lazy cell of VFOX_PLUGIN_NAMES
    seen,     \* the catalog each thread got at its last access
    computed, \* how many times the initializer of VFOX_PLUGIN_NAMES has run
    listed,   \* what the last direct call of VfoxPlugin::list returned
    epc,      \* where the caller of mise_env / mise_path is
    eop,      \* which of the two it called
    rx,       \* the mpsc::Receiver vfox() returned: none, open or dropped
    queued,   \* log messages sent into the channel while it was open
    lost,     \* log messages emitted after the receiver was dropped
    results,  \* what block_on returned and the loop has not consumed yet
    out,      \* the IndexMap / Vec the loop builds
    eret      \* what mise_env / mise_path returned

calls == <<op, arg, pre, url, ret, pr, git, prev, checked>>
threads == <<pc, lock, loc, tret>>
plugin == <<name, repo_url>>
catalog == <<index, disabled, cell, seen, computed, listed>>
bridge == <<epc, eop, rx, queued, lost, results, out, eret>>
host == <<catalog, bridge>>
vars == <<host, plugin, fs, tip, calls, threads>>

\* VfoxPlugin::is_installed
is_installed(f) == exists(f)

\* get_repo_url that falls back to the name when the remote does not parse
get_repo_url_fallback(n, f) ==
    LET remote == Git_get_remote_url(f) IN
    IF remote.some /\ UrlParse(remote.val).ok THEN UrlParse(remote.val)
    ELSE vfox_to_url(n)

\* VfoxPlugin::get_repo_url
get_repo_url(n, f) ==
    LET remote == Git_get_remote_url(f) IN
    IF remote.some THEN UrlParse(remote.val) ELSE vfox_to_url(n)

NotResolved == Err("not resolved")

\* install has not reached its rejected-URL check
NotChecked == Disk(FALSE, "unchecked", None, "none")

Outcome(f, u, r, p, g) ==
    [fs |-> f, url |-> u, ret |-> r, pr |-> p, git |-> g, chk |-> NotChecked]

\* the outcome of an install whose check of line 231 ran with f on disk
CheckedAt(o, f) == [o EXCEPT !.chk = f]

\* regex ^[/~]
LooksLocal(s) == Len(s) > 0 /\ s[1] \in {"/", "~"}

\* uninstall without the is_installed check of line 199
uninstall_unguarded(f) ==
    {[ok |-> r.ok, fs |-> r.fs,
      pr |-> IF exists(f) THEN <<"set_message", "set_message">> ELSE <<"set_message">>] :
        r \in IF exists(f) THEN remove_all(f) ELSE {[ok |-> TRUE, fs |-> f]}}

\* uninstall that ends with finish_with_message
uninstall_finishes(f) ==
    IF ~is_installed(f) THEN {[ok |-> TRUE, fs |-> f, pr |-> <<>>]}
    ELSE {[ok |-> r.ok, fs |-> r.fs,
           pr |-> IF r.ok THEN <<"set_message", "set_message", "finish_with_message">>
                  ELSE <<"set_message", "set_message">>] :
            r \in remove_all(f)}

\* VfoxPlugin::uninstall: outcomes are [ok, fs, pr]
uninstall(f) ==
    IF ~is_installed(f) THEN {[ok |-> TRUE, fs |-> f, pr |-> <<>>]}
    ELSE {[ok |-> r.ok, fs |-> r.fs, pr |-> <<"set_message", "set_message">>] :
            r \in remove_all(f)}

\* install that clones and never checks out the ref of lines 241-244
install_clone_no_checkout(f, u, p, t) ==
    LET sp == split_url_and_ref(u.val)
        p1 == Append(p, "set_message")
    IN  {IF c.ok
         THEN Outcome(c.fs, u, Ok(<<>>), Append(p1, "finish_with_message"), <<"clone">>)
         ELSE Outcome(c.fs, u, Err("Repository"), p1, <<"clone">>) :
         c \in Git_clone(f, sp.url, t)}

\* VfoxPlugin::install, from the clone on
install_clone(f, u, p, t) ==
    LET sp == split_url_and_ref(u.val)
        p1 == Append(p, "set_message")
    IN  UNION {
          IF ~c.ok THEN {Outcome(c.fs, u, Err("Repository"), p1, <<"clone">>)}
          ELSE IF ~sp.ref.some
          THEN {Outcome(c.fs, u, Ok(<<>>), Append(p1, "finish_with_message"), <<"clone">>)}
          ELSE {IF w.ok
                THEN Outcome(w.fs, u, Ok(<<>>),
                             p1 \o <<"set_message", "finish_with_message">>,
                             <<"clone", "update">>)
                ELSE Outcome(w.fs, u, Err("Repository"), Append(p1, "set_message"),
                             <<"clone", "update">>) :
                w \in Git_update(c.fs, sp.ref, t)} :
          c \in Git_clone(f, sp.url, t)}

\* install with the uninstall of lines 227-229 moved before line 223
install_uninstall_first(n, f, t) ==
    UNION {
      LET u  == get_repo_url(n, f)
          sp == split_url_and_ref(u.val)
      IN  IF ~un.ok THEN {Outcome(un.fs, u, Err("Filesystem"), un.pr, <<>>)}
          ELSE IF ~u.ok THEN {Outcome(un.fs, u, u, un.pr, <<>>)}
          ELSE IF LooksLocal(sp.url)
          THEN {CheckedAt(Outcome(un.fs, u, Err("Validation"), un.pr, <<>>), un.fs)}
          ELSE {CheckedAt(o, un.fs) : o \in install_clone(un.fs, u, un.pr, t)} :
      un \in uninstall(f)}

\* VfoxPlugin::install
install(n, f, t) ==
    LET u  == get_repo_url(n, f)
        sp == split_url_and_ref(u.val)
    IN  IF ~u.ok THEN {Outcome(f, u, u, <<>>, <<>>)}
        ELSE UNION {
               IF ~un.ok THEN {Outcome(un.fs, u, Err("Filesystem"), un.pr, <<>>)}
               ELSE IF LooksLocal(sp.url)
               THEN {CheckedAt(Outcome(un.fs, u, Err("Validation"), un.pr, <<>>), un.fs)}
               ELSE {CheckedAt(o, un.fs) : o \in install_clone(un.fs, u, un.pr, t)} :
               un \in uninstall(f)}

\* update without the symlink check of lines 172-178
update_no_symlink_check(f, gitref, t) ==
    IF ~is_repo(f) THEN {Outcome(f, NotResolved, Ok(<<>>), <<>>, <<>>)}
    ELSE {IF w.ok
          THEN Outcome(w.fs, NotResolved, Ok(<<>>),
                       <<"set_message", "finish_with_message">>, <<"update">>)
          ELSE Outcome(w.fs, NotResolved, Err("Repository"), <<"set_message">>,
                       <<"update">>) :
          w \in Git_update(f, gitref, t)}

\* VfoxPlugin::update
update(f, gitref, t) ==
    IF is_symlink(f) THEN {Outcome(f, NotResolved, Ok(<<>>), <<>>, <<>>)}
    ELSE IF ~is_repo(f) THEN {Outcome(f, NotResolved, Ok(<<>>), <<>>, <<>>)}
    ELSE {IF w.ok
          THEN Outcome(w.fs, NotResolved, Ok(<<>>),
                       <<"set_message", "finish_with_message">>, <<"update">>)
          ELSE Outcome(w.fs, NotResolved, Err("Repository"), <<"set_message">>,
                       <<"update">>) :
          w \in Git_update(f, gitref, t)}

\* VfoxPlugin::ensure_installed
ensure_installed(n, f, t) ==
    IF exists(f) THEN {Outcome(f, NotResolved, Ok(<<>>), <<>>, <<>>)}
    ELSE LET u == get_repo_url(n, f) IN
         IF ~u.ok THEN {Outcome(f, u, u, <<>>, <<>>)}
         ELSE {Outcome(c.fs, u, IF c.ok THEN Ok(<<>>) ELSE Err("Repository"),
                       <<>>, <<"clone">>) :
               c \in Git_clone(f, u.val, t)}

\* an Option as a return value: <<>> for None, <<x>> for Some(x)
OptVal(o) == IF o.some THEN <<o.val>> ELSE <<>>

\* Git::current_abbrev_ref: the branch, or HEAD when a tag is checked out
Git_current_abbrev_ref(f) ==
    IF ~is_repo(f) THEN Err("Repository")
    ELSE IF f.head \in {"t1", "t2"} THEN Ok(<<"main">>) ELSE Ok(<<"HEAD">>)

\* is_installed_err with the test of line 154 inverted
is_installed_err_inverted(f) ==
    IF ~is_installed(f) THEN Ok(<<>>) ELSE Err("NotInstalled")

\* VfoxPlugin::is_installed_err
is_installed_err(f) ==
    IF is_installed(f) THEN Ok(<<>>) ELSE Err("NotInstalled")

\* VfoxPlugin::current_sha_short
current_sha_short(f) ==
    IF ~is_installed(f) THEN Outcome(f, NotResolved, Ok(<<>>), <<>>, <<>>)
    ELSE LET r == Git_current_sha_short(f) IN
         Outcome(f, NotResolved, IF r.ok THEN Ok(<<r.val>>) ELSE r, <<>>,
                 <<"current_sha_short">>)

\* VfoxPlugin::current_abbrev_ref
current_abbrev_ref(f) ==
    IF ~is_installed(f) THEN Outcome(f, NotResolved, Ok(<<>>), <<>>, <<>>)
    ELSE LET r == Git_current_abbrev_ref(f) IN
         Outcome(f, NotResolved, IF r.ok THEN Ok(<<r.val>>) ELSE r, <<>>,
                 <<"current_abbrev_ref">>)

\* get_remote_url without the fallback to self.repo_url of line 132
get_remote_url_no_fallback(f, ru) == Ok(OptVal(Git_get_remote_url(f)))

\* VfoxPlugin::get_remote_url
get_remote_url(f, ru) ==
    LET u == Git_get_remote_url(f) IN
    Ok(OptVal(IF u.some THEN u ELSE ru))

(***************************************************************************)
(* Inputs                                                                  *)
(***************************************************************************)
Strings(n) == UNION {[1..k -> Alphabet] : k \in 1..n}

PluginNames ==
    { <<"bun">>,
      <<"a", "/", "bun">>,
      <<"a", "/", "bun", "#", "v1">>,
      <<"a", "/", "bun", "#", "a">>,
      <<"~", "/", "local", "/", "plugin">>,
      <<"~", "/", "a">>,
      GitHub \o <<"a", "/", "bun", "#", "v1">>,
      Ssh_a_bun }

InitDisks ==
    { Absent,
      Disk(TRUE, "absent", None, "none"),
      Disk(FALSE, "dir", None, "none"),
      Disk(TRUE, "dir", None, "none"),
      WorkingCopy(None, "t1"),
      WorkingCopy(Some(Repo_a_bun), "t1"),
      WorkingCopy(Some(Ssh_a_bun), "t1"),
      Disk(TRUE, "repo", Some(Repo_a_bun), "t1") }

GitRefs == {None, Some(<<"v1">>), Some(<<"a">>)}

NoPrev == [op |-> "none", ok |-> TRUE, head |-> "none"]

Threads == 1..NThreads

NoLocals == [url |-> NotResolved, ref |-> None]

InitWith(names) ==
    /\ name \in names
    /\ fs \in InitDisks
    /\ tip = "t1"
    /\ op = "new"
    /\ arg = None
    /\ pre = fs
    /\ url = NotResolved
    /\ ret = Ok(<<>>)
    /\ pr = <<>>
    /\ git = <<>>
    /\ prev = NoPrev
    /\ checked = NotChecked
    /\ pc = [t \in Threads |-> "idle"]
    /\ lock = 0
    /\ loc = [t \in Threads |-> NoLocals]
    /\ tret = [t \in Threads |-> "none"]

\* the Lazy cell before its first access, and a thread that has not read it
Uninit == [st |-> "uninit", val |-> {}]
Unseen == [some |-> FALSE, val |-> {}]
NotListed ==
    [ix |-> {}, dis |-> {}, ret |-> [ok |-> FALSE, val |-> {}, err |-> "not called"]]
NotReturned == [ok |-> FALSE, val |-> <<>>, err |-> "not called"]

\* nothing installed, nothing disabled, VFOX_PLUGIN_NAMES not accessed
CatalogIdle ==
    /\ index = {}
    /\ disabled = {}
    /\ cell = Uninit
    /\ seen = [t \in Threads |-> Unseen]
    /\ computed = 0
    /\ listed = NotListed

\* mise_env and mise_path not called
BridgeIdle ==
    /\ epc = "idle"
    /\ eop = "none"
    /\ rx = "none"
    /\ queued = 0
    /\ lost = 0
    /\ results = <<>>
    /\ out = <<>>
    /\ eret = NotReturned

HostIdle == CatalogIdle /\ BridgeIdle

\* the values of the pub field repo_url: None as VfoxPlugin::new leaves it,
\* or an explicit remote set by the code that registered the plugin
RepoUrls == {None, Some(Repo_vfox_bun)}

\* VfoxPlugin::new, called with a name of PluginNames
Init == InitWith(PluginNames) /\ repo_url \in RepoUrls /\ HostIdle

Called(o, a, oc) ==
    /\ op' = o
    /\ arg' = a
    /\ pre' = fs
    /\ fs' = oc.fs
    /\ url' = oc.url
    /\ ret' = oc.ret
    /\ pr' = oc.pr
    /\ git' = oc.git
    /\ checked' = oc.chk
    /\ prev' = [op |-> op, ok |-> ret.ok, head |-> fs.head]
    /\ UNCHANGED <<host, plugin, tip, threads>>

Install == \E oc \in install(name, fs, tip) : Called("install", None, oc)

Update == \E g \in GitRefs : \E oc \in update(fs, g, tip) : Called("update", g, oc)

Uninstall ==
    \E un \in uninstall(fs) :
        Called("uninstall", None,
               Outcome(un.fs, NotResolved,
                       IF un.ok THEN Ok(<<>>) ELSE Err("Filesystem"), un.pr, <<>>))

EnsureInstalled ==
    \E oc \in ensure_installed(name, fs, tip) : Called("ensure_installed", None, oc)

GetRepoUrl ==
    LET u == get_repo_url(name, fs) IN
    Called("get_repo_url", None, Outcome(fs, u, u, <<>>, <<>>))

GetRemoteUrl ==
    Called("get_remote_url", None,
           Outcome(fs, NotResolved, get_remote_url(fs, repo_url), <<>>, <<"get_remote_url">>))

IsInstalledErr ==
    Called("is_installed_err", None,
           Outcome(fs, NotResolved, is_installed_err(fs), <<>>, <<>>))

CurrentShaShort == Called("current_sha_short", None, current_sha_short(fs))

CurrentAbbrevRef == Called("current_abbrev_ref", None, current_abbrev_ref(fs))

\* a push to the remotes' default branch
RemotePush ==
    /\ tip = "t1"
    /\ tip' = "t2"
    /\ op' = "push"
    /\ arg' = None
    /\ pre' = fs
    /\ url' = NotResolved
    /\ ret' = Ok(<<>>)
    /\ pr' = <<>>
    /\ git' = <<>>
    /\ checked' = NotChecked
    /\ prev' = [op |-> op, ok |-> ret.ok, head |-> fs.head]
    /\ UNCHANGED <<host, plugin, fs, threads>>

Next ==
    \/ Install
    \/ Update
    \/ Uninstall
    \/ EnsureInstalled
    \/ GetRepoUrl
    \/ GetRemoteUrl
    \/ IsInstalledErr
    \/ CurrentShaShort
    \/ CurrentAbbrevRef
    \/ RemotePush

Spec == Init /\ [][Next]_vars

\* the resolver alone, over every name of up to MaxLen tokens
InitResolve ==
    InitWith(Strings(MaxLen) \cup PluginNames) /\ repo_url = None /\ HostIdle

NextResolve == GetRepoUrl

SpecResolve == InitResolve /\ [][NextResolve]_vars

(***************************************************************************)
(* Several threads calling install, update and ensure_installed on one     *)
(* VfoxPlugin.  A thread takes one step at a time; a git command is in     *)
(* progress from the step that starts it to the step that ends it.         *)
(***************************************************************************)
Goto(t, l) == pc' = [pc EXCEPT ![t] = l]

Return(t, status) ==
    /\ pc' = [pc EXCEPT ![t] = "idle"]
    /\ tret' = [tret EXCEPT ![t] = status]

\* self.repo(): Mutex::lock blocks until the mutex is free
Acquire(t) == lock = 0 /\ lock' = t

\* the MutexGuard is dropped
Release(t) == lock = t /\ lock' = 0

CallInstall(t) ==
    /\ pc[t] = "idle"
    /\ Goto(t, "install")
    /\ loc' = [loc EXCEPT ![t] = NoLocals]
    /\ tret' = [tret EXCEPT ![t] = "running"]
    /\ UNCHANGED <<host, plugin, fs, tip, calls, lock>>

CallUpdate(t) ==
    /\ pc[t] = "idle"
    /\ Goto(t, "update")
    /\ \E g \in {None, Some(<<"v1">>)} : loc' = [loc EXCEPT ![t] = [NoLocals EXCEPT !.ref = g]]
    /\ tret' = [tret EXCEPT ![t] = "running"]
    /\ UNCHANGED <<host, plugin, fs, tip, calls, lock>>

CallEnsureInstalled(t) ==
    /\ pc[t] = "idle"
    /\ Goto(t, "ensure_installed")
    /\ loc' = [loc EXCEPT ![t] = NoLocals]
    /\ tret' = [tret EXCEPT ![t] = "running"]
    /\ UNCHANGED <<host, plugin, fs, tip, calls, lock>>

\* get_repo_url, line 71: self.repo()
ResolveLock(t, from, to) ==
    /\ pc[t] = from
    /\ Acquire(t)
    /\ Goto(t, to)
    /\ UNCHANGED <<host, plugin, fs, tip, calls, loc, tret>>

\* get_repo_url whose MutexGuard outlives the call
Resolve_keeps_guard(t, from, to) ==
    /\ pc[t] = from
    /\ UNCHANGED lock
    /\ LET u == get_repo_url(name, fs) IN
       IF u.ok
       THEN /\ loc' = [loc EXCEPT ![t] = [url |-> u, ref |-> split_url_and_ref(u.val).ref]]
            /\ Goto(t, to)
            /\ UNCHANGED tret
       ELSE /\ Return(t, "err")
            /\ UNCHANGED loc
    /\ UNCHANGED <<host, plugin, fs, tip, calls>>

\* get_repo_url, lines 71-74, and the ? of its caller
Resolve(t, from, to) ==
    /\ pc[t] = from
    /\ Release(t)
    /\ LET u == get_repo_url(name, fs) IN
       IF u.ok
       THEN /\ loc' = [loc EXCEPT ![t] = [url |-> u, ref |-> split_url_and_ref(u.val).ref]]
            /\ Goto(t, to)
            /\ UNCHANGED tret
       ELSE /\ Return(t, "err")
            /\ UNCHANGED loc
    /\ UNCHANGED <<host, plugin, fs, tip, calls>>

InstallLock(t) == ResolveLock(t, "install", "install_resolve")

InstallResolve(t) == Resolve(t, "install_resolve", "install_uninstall")

\* install, lines 227-229
InstallUninstall(t) ==
    /\ pc[t] = "install_uninstall"
    /\ IF is_installed(fs)
       THEN \E un \in uninstall(fs) :
              /\ fs' = un.fs
              /\ IF un.ok THEN Goto(t, "install_clone") /\ UNCHANGED tret
                 ELSE Return(t, "err")
       ELSE Goto(t, "install_clone") /\ UNCHANGED <<fs, tret>>
    /\ UNCHANGED <<host, plugin, tip, calls, lock, loc>>

\* install, lines 231-240: the rejected-URL check, then git.clone starts
InstallCloneBegin(t) ==
    /\ pc[t] = "install_clone"
    /\ IF LooksLocal(split_url_and_ref(loc[t].url.val).url)
       THEN Return(t, "err")
       ELSE Goto(t, "install_cloning") /\ UNCHANGED tret
    /\ UNCHANGED <<host, plugin, fs, tip, calls, lock, loc>>

\* install, line 240: git.clone ends
InstallCloneEnd(t) ==
    /\ pc[t] = "install_cloning"
    /\ \E c \in Git_clone(fs, split_url_and_ref(loc[t].url.val).url, tip) :
         /\ fs' = c.fs
         /\ IF ~c.ok THEN Return(t, "err")
            ELSE IF loc[t].ref.some THEN Goto(t, "install_checking_out") /\ UNCHANGED tret
            ELSE Goto(t, "install_finish") /\ UNCHANGED tret
    /\ UNCHANGED <<host, plugin, tip, calls, lock, loc>>

\* install, line 243: git.update(ref) ends
InstallCheckoutEnd(t) ==
    /\ pc[t] = "install_checking_out"
    /\ \E w \in Git_update(fs, loc[t].ref, tip) :
         /\ fs' = w.fs
         /\ IF w.ok THEN Goto(t, "install_finish") /\ UNCHANGED tret
            ELSE Return(t, "err")
    /\ UNCHANGED <<host, plugin, tip, calls, lock, loc>>

\* install, lines 246-251
InstallFinish(t) ==
    /\ pc[t] = "install_finish"
    /\ Return(t, IF Git_current_sha_short(fs).ok THEN "ok" ELSE "err")
    /\ UNCHANGED <<host, plugin, fs, tip, calls, lock, loc>>

\* update, lines 171-188: the two refusals, then git.update starts
UpdateBegin(t) ==
    /\ pc[t] = "update"
    /\ IF is_symlink(fs) \/ ~is_repo(fs)
       THEN Return(t, "ok")
       ELSE Goto(t, "update_fetching") /\ UNCHANGED tret
    /\ UNCHANGED <<host, plugin, fs, tip, calls, lock, loc>>

\* update, lines 188-189: git.update ends, then current_sha_short
UpdateEnd(t) ==
    /\ pc[t] = "update_fetching"
    /\ \E w \in Git_update(fs, loc[t].ref, tip) :
         /\ fs' = w.fs
         /\ IF w.ok /\ Git_current_sha_short(w.fs).ok
            THEN Goto(t, "update_remote") /\ UNCHANGED tret
            ELSE Return(t, "err")
    /\ UNCHANGED <<host, plugin, tip, calls, lock, loc>>

\* update, line 190: get_remote_url takes self.repo()
UpdateLock(t) ==
    /\ pc[t] = "update_remote"
    /\ Acquire(t)
    /\ Goto(t, "update_finish")
    /\ UNCHANGED <<host, plugin, fs, tip, calls, loc, tret>>

\* update, lines 190-195
UpdateFinish(t) ==
    /\ pc[t] = "update_finish"
    /\ Release(t)
    /\ Return(t, "ok")
    /\ UNCHANGED <<host, plugin, fs, tip, calls, loc>>

\* ensure_installed, line 162
EnsureCheck(t) ==
    /\ pc[t] = "ensure_installed"
    /\ IF exists(fs) THEN Return(t, "ok")
       ELSE Goto(t, "ensure_url") /\ UNCHANGED tret
    /\ UNCHANGED <<host, plugin, fs, tip, calls, lock, loc>>

EnsureLock(t) == ResolveLock(t, "ensure_url", "ensure_resolve")

EnsureResolve(t) == Resolve(t, "ensure_resolve", "ensure_clone")

\* ensure_installed, line 165: self.repo(), then clone starts
EnsureCloneBegin(t) ==
    /\ pc[t] = "ensure_clone"
    /\ Acquire(t)
    /\ Goto(t, "ensure_cloning")
    /\ UNCHANGED <<host, plugin, fs, tip, calls, loc, tret>>

\* ensure_installed, line 165: clone ends and the guard is dropped
EnsureCloneEnd(t) ==
    /\ pc[t] = "ensure_cloning"
    /\ Release(t)
    /\ \E c \in Git_clone(fs, loc[t].url.val, tip) :
         /\ fs' = c.fs
         /\ Return(t, IF c.ok THEN "ok" ELSE "err")
    /\ UNCHANGED <<host, plugin, tip, calls, loc>>

\* a git command that changes the working copy is running in thread t
Mutating(t) ==
    pc[t] \in {"install_cloning", "install_checking_out", "update_fetching", "ensure_cloning"}

ConcNames == {<<"a", "/", "bun">>, <<"a", "/", "bun", "#", "v1">>}

InitConc == InitWith(ConcNames) /\ repo_url = None /\ HostIdle

\* one step of thread t in install, update or ensure_installed
Step(t) ==
        \/ CallInstall(t)
        \/ CallUpdate(t)
        \/ CallEnsureInstalled(t)
        \/ InstallLock(t)
        \/ InstallResolve(t)
        \/ InstallUninstall(t)
        \/ InstallCloneBegin(t)
        \/ InstallCloneEnd(t)
        \/ InstallCheckoutEnd(t)
        \/ InstallFinish(t)
        \/ UpdateBegin(t)
        \/ UpdateEnd(t)
        \/ UpdateLock(t)
        \/ UpdateFinish(t)
        \/ EnsureCheck(t)
        \/ EnsureLock(t)
        \/ EnsureResolve(t)
        \/ EnsureCloneBegin(t)
        \/ EnsureCloneEnd(t)

NextConc == \E t \in Threads : Step(t)

SpecConc == InitConc /\ [][NextConc]_vars

\* the operations that only ask the repository
RepoQueries ==
    {"get_repo_url", "get_remote_url", "current_sha_short", "current_abbrev_ref"}

\* where a query is at its self.repo() call, and while it holds the guard
AtRepo ==
    [get_repo_url |-> "get_repo_url", get_remote_url |-> "get_remote_url",
     current_sha_short |-> "current_sha_short_repo",
     current_abbrev_ref |-> "current_abbrev_ref_repo"]
Locked ==
    [get_repo_url |-> "get_repo_url_locked",
     get_remote_url |-> "get_remote_url_locked",
     current_sha_short_repo |-> "current_sha_short_locked",
     current_abbrev_ref_repo |-> "current_abbrev_ref_locked"]

CallQuery(t) ==
    /\ pc[t] = "idle"
    /\ \E q \in RepoQueries : Goto(t, q)
    /\ loc' = [loc EXCEPT ![t] = NoLocals]
    /\ tret' = [tret EXCEPT ![t] = "running"]
    /\ UNCHANGED <<host, plugin, fs, tip, calls, lock>>

\* current_sha_short and current_abbrev_ref, lines 136-138 and 143-145
QueryCheck(t) ==
    /\ pc[t] \in {"current_sha_short", "current_abbrev_ref"}
    /\ IF ~is_installed(fs) THEN Return(t, "ok")
       ELSE Goto(t, AtRepo[pc[t]]) /\ UNCHANGED tret
    /\ UNCHANGED <<host, plugin, fs, tip, calls, lock, loc>>

\* lines 71, 131, 139 and 146: self.repo()
QueryLock(t) ==
    /\ pc[t] \in DOMAIN Locked
    /\ Acquire(t)
    /\ Goto(t, Locked[pc[t]])
    /\ UNCHANGED <<host, plugin, fs, tip, calls, loc, tret>>

\* the repository answers, the guard is dropped and the query returns
QueryEnd(t) ==
    /\ pc[t] \in {Locked[l] : l \in DOMAIN Locked}
    /\ Release(t)
    /\ LET good ==
             CASE pc[t] = "get_repo_url_locked" -> get_repo_url(name, fs).ok
               [] pc[t] = "get_remote_url_locked" -> get_remote_url(fs, repo_url).ok
               [] pc[t] = "current_sha_short_locked" -> current_sha_short(fs).ret.ok
               [] OTHER -> current_abbrev_ref(fs).ret.ok
       IN  Return(t, IF good THEN "ok" ELSE "err")
    /\ UNCHANGED <<host, plugin, fs, tip, calls, loc>>

\* the labels at which a thread calls self.repo(), and those at which it
\* holds the MutexGuard
Acquiring ==
    {"install", "ensure_url", "ensure_clone", "update_remote"} \cup DOMAIN Locked
Holding ==
    {"install_resolve", "ensure_resolve", "ensure_cloning", "update_finish"}
        \cup {Locked[l] : l \in DOMAIN Locked}

LockDisks == {Absent, WorkingCopy(Some(Repo_a_bun), "t1")}

InitLock ==
    /\ InitWith({<<"a", "/", "bun", "#", "v1">>}) /\ fs \in LockDisks
    /\ repo_url = None
    /\ HostIdle

\* one step of thread t in any operation that uses the repository
LockStep(t) ==
    \/ Step(t)
    \/ CallQuery(t)
    \/ QueryCheck(t)
    \/ QueryLock(t)
    \/ QueryEnd(t)

NextLock == \E t \in Threads : LockStep(t)

SpecLock == InitLock /\ [][NextLock]_vars

InitEnsure ==
    /\ InitWith({<<"a", "/", "bun">>}) /\ fs = Absent
    /\ repo_url = None
    /\ HostIdle

NextEnsure ==
    \E t \in Threads :
        \/ CallEnsureInstalled(t)
        \/ EnsureCheck(t)
        \/ EnsureLock(t)
        \/ EnsureResolve(t)
        \/ EnsureCloneBegin(t)
        \/ EnsureCloneEnd(t)

SpecEnsure == InitEnsure /\ [][NextEnsure]_vars

(***************************************************************************)
(* Properties                                                              *)
(***************************************************************************)
Range(q) == {q[i] : i \in 1..Len(q)}

Key(n) == trim_start_matches(n, "vfox-")

\* get_repo_url was called for an owner/repo name with no registry alias
\* and no configured remote
C1_Case ==
    /\ op = "get_repo_url"
    /\ IsShorthand(name)
    /\ Key(name) \notin DOMAIN Registry
    /\ ~Git_get_remote_url(pre).some

\* no path segment of owner/repo, up to a "#", is "." or ".."
NoDotSegment(n) ==
    \A seg \in Range(SplitSegments(split_once(n, "#").fst)) :
        ~IsSingleDot(seg) /\ ~IsDoubleDot(seg)

\* C1 as stated: every owner/repo name with no registry alias and no
\* configured remote resolves to https://github.com/owner/repo.
C1_Original == C1_Case => ret = Ok(GitHub \o name)

\* C1, amended: an owner/repo name with no registry alias and no configured
\* remote, none of whose path segments is "." or "..", resolves to
\* https://github.com/owner/repo.
C1_ShorthandResolvesToGitHub ==
    (C1_Case /\ NoDotSegment(name)) => ret = Ok(GitHub \o name)

C1_Witness ==
    /\ C1_Case
    /\ name = <<"a", "/", "bun", "#", "a">>
    /\ ret = Ok(GitHub \o <<"a", "/", "bun", "#", "a">>)

\* get_repo_url was called for a registry alias with no configured remote
C2_Case ==
    /\ op = "get_repo_url"
    /\ Key(name) \in DOMAIN Registry
    /\ ~Git_get_remote_url(pre).some

\* C2: resolving a registry alias returns (the nested vfox_to_url calls end,
\* and none panics), and the result is what the shorthand rule or direct URL
\* parsing gives for the alias's payload after the first ":".
C2_AliasResolvesViaPayload ==
    C2_Case =>
        /\ ret.err \notin {"Diverges", "Panic"}
        /\ ret = shorthand_or_parse(split_once(Registry[Key(name)], ":").snd)

C2_Witness ==
    /\ C2_Case
    /\ name = <<"vfox-", "bun">>
    /\ ret = Ok(Repo_vfox_bun)

\* C3: when the working copy has a configured remote, get_repo_url returns
\* that remote parsed as a URL and nothing derived from the name; when the
\* remote does not parse, the caller fails with the parse error, having
\* changed nothing and run no git command.
C3_RemoteFirstNoFallback ==
    (op \in {"get_repo_url", "install"} /\ Git_get_remote_url(pre).some) =>
        LET parsed == UrlParse(Git_get_remote_url(pre).val) IN
        /\ url = parsed
        /\ ~parsed.ok => (ret = parsed /\ ret.err # "InvalidVersion" /\ fs = pre /\ git = <<>>)

C3_Witness ==
    /\ op = "install"
    /\ name = <<"a", "/", "bun">>
    /\ vfox_to_url(name).ok
    /\ Git_get_remote_url(pre) = Some(Ssh_a_bun)
    /\ ret = Err("RelativeUrlWithoutBase")

\* C4 as stated: two installs in succession, both successful and with no
\* push to the remote between them, end at the same revision.
C4_InstallTwiceSameRevision ==
    (op = "install" /\ ret.ok /\ prev.op = "install" /\ prev.ok) => fs.head = prev.head

\* C5: after a successful install whose resolved URL has a "#ref" fragment,
\* the clone was made from the URL without the fragment, the ref was checked
\* out after the clone, and current_sha_short is the revision of the ref.
C5_RefCheckedOut ==
    (op = "install" /\ ret.ok /\ split_url_and_ref(url.val).ref.some) =>
        LET sp == split_url_and_ref(url.val) IN
        /\ git = <<"clone", "update">>
        /\ is_repo(fs)
        /\ fs.remote = Some(sp.url)
        /\ sp.ref.val \in DOMAIN RefRev
        /\ Git_current_sha_short(fs) = Ok(<<RefRev[sp.ref.val]>>)

C5_Witness ==
    /\ op = "install"
    /\ ret.ok
    /\ url = Ok(Repo_a_bun \o <<"#", "v1">>)
    /\ fs = WorkingCopy(Some(Repo_a_bun), "c1")
    /\ tip = "t2"

\* C6 as stated: install of "~/local/plugin" fails with the validation error
\* that mentions `mise plugins link`, and runs no clone.
C6_LocalPathRejected ==
    (op = "install" /\ name = <<"~", "/", "local", "/", "plugin">>) =>
        (ret = Err("Validation") /\ git = <<>>)

\* C7: uninstall of a path that does not exist returns Ok, leaves the disk
\* as it was and sends no progress message; an uninstall that returns Ok
\* leaves the path absent, so the uninstall after it is such a no-op.
C7_UninstallIdempotent ==
    op = "uninstall" =>
        /\ ~exists(pre) => (ret.ok /\ fs = pre /\ pr = <<>>)
        /\ ret.ok => ~exists(fs)
        /\ (prev.op = "uninstall" /\ prev.ok) => (ret.ok /\ fs = pre /\ pr = <<>>)

C7_Witness ==
    /\ op = "uninstall"
    /\ prev.op = "uninstall"
    /\ prev.ok
    /\ pre = Absent
    /\ fs = Absent
    /\ ret.ok
    /\ pr = <<>>

\* C8: update of a path that is a symlink or is not a working copy returns
\* Ok, runs no git command and leaves the disk as it was; update changes
\* the disk only when the path is a working copy and not a symlink.
C8_UpdateRefuses ==
    op = "update" =>
        /\ (is_symlink(pre) \/ ~is_repo(pre)) => (ret.ok /\ git = <<>> /\ fs = pre)
        /\ (fs # pre \/ git # <<>>) => (~is_symlink(pre) /\ is_repo(pre))

C8_Witness ==
    /\ op = "update"
    /\ is_symlink(pre)
    /\ is_repo(pre)
    /\ ret.ok
    /\ fs = pre

\* C9 as stated: at no time are two git commands that change the working
\* copy running in two threads.
C9_MutationsSerialized == Cardinality({t \in Threads : Mutating(t)}) <= 1

Lifecycle == {"install", "update", "uninstall"}

Finished == Len(pr) > 0 /\ pr[Len(pr)] = "finish_with_message"

\* C10 as stated: install, update and uninstall each call set_message zero
\* or more times and then finish_with_message exactly once, as the last call.
C10_Original ==
    op \in Lifecycle =>
        (Finished /\ \A i \in 1..(Len(pr) - 1) : pr[i] = "set_message")

\* C10, amended: install, update and uninstall call finish_with_message at
\* most once and only as their last call to the progress sink; install and
\* update call it exactly when they return Ok after running git, and
\* uninstall never calls it.
C10_FinishOnlyOnGitSuccess ==
    op \in Lifecycle =>
        /\ \A i \in 1..(Len(pr) - 1) : pr[i] = "set_message"
        /\ Finished <=> (op \in {"install", "update"} /\ ret.ok /\ git # <<>>)

C10_Witness ==
    /\ op = "install"
    /\ ret.ok
    /\ pr = <<"set_message", "set_message", "set_message", "set_message",
              "finish_with_message">>

\* what an operation can leave on disk, and whether it returns Ok
EffectsOf(outs) == {[fs |-> o.fs, ok |-> o.ret.ok] : o \in outs}

\* C13 as stated: ensure_installed of an absent plugin has the outcomes of
\* install (the clone of the URL without its fragment, then the checkout of
\* the ref), and ensure_installed of an installed plugin changes nothing.
C13_EnsureInstalledIsInstall ==
    op = "ensure_installed" =>
        IF exists(pre) THEN fs = pre
        ELSE EffectsOf(ensure_installed(name, pre, tip)) = EffectsOf(install(name, pre, tip))

Queries == {"is_installed_err", "current_sha_short", "current_abbrev_ref"}

\* C14: is_installed_err returns an error exactly when the install path
\* does not exist; current_sha_short and current_abbrev_ref return None and
\* ask the repository nothing when it does not exist, and ask it when it
\* does; none of the three changes what is on disk.
C14_QueriesFollowExistence ==
    op \in Queries =>
        /\ fs = pre
        /\ op = "is_installed_err" =>
              (ret.ok <=> exists(pre)) /\ (~ret.ok => ret.err = "NotInstalled")
        /\ op # "is_installed_err" =>
              IF exists(pre) THEN git = <<op>> ELSE ret = Ok(<<>>) /\ git = <<>>

C14_Witness ==
    /\ op = "is_installed_err"
    /\ pre = Disk(TRUE, "absent", None, "none")
    /\ prev.op = "current_sha_short"
    /\ ret = Err("NotInstalled")

\* C15 as stated: install checks the resolved URL for a local path before
\* anything on disk changes, so the disk at that check is the disk install
\* was called on.
C15_CheckBeforeMutation ==
    (op = "install" /\ checked # NotChecked) => checked = pre

\* C16 as stated: when a repository step of install fails, the install path
\* is left absent or partially populated.
C16_Original ==
    (op = "install" /\ ret = Err("Repository")) => fs.kind \in {"absent", "partial"}

\* C16: install returns the first error and stops. A failed URL resolution
\* is returned as it is with nothing touched; a later failure never reaches
\* finish_with_message and restores nothing of what uninstall removed, and
\* leaves the path absent, partial, or (when only the checkout of the ref
\* failed) a complete working copy at the default-branch tip.
C16_FirstErrorNoRollback ==
    (op = "install" /\ ~ret.ok) =>
        /\ ~Finished
        /\ ~url.ok => ret = url /\ fs = pre /\ pr = <<>> /\ git = <<>>
        /\ ret = Err("Repository") =>
              /\ \/ fs.kind \in {"absent", "partial"}
                 \/ fs \in {WorkingCopy(Some(u), tip) : u \in KnownRepos}
              /\ fs.kind = "repo" => git = <<"clone", "update">>

C16_Witness ==
    /\ op = "install"
    /\ ~ret.ok
    /\ pre.kind = "repo"
    /\ fs.kind = "repo"
    /\ fs # pre
    /\ git = <<"clone", "update">>

\* C17 as stated: get_remote_url never returns an error; it returns the
\* remote of the on-disk repository when the path is a repository and None
\* otherwise, whatever the plugin's repo_url field is.
C17_Original ==
    op = "get_remote_url" =>
        /\ ret.ok
        /\ ret.val = IF is_repo(pre) THEN OptVal(pre.remote) ELSE <<>>

\* C17: get_remote_url never returns an error and changes nothing; it
\* returns the remote configured in the on-disk repository when there is
\* one, and otherwise the plugin's repo_url field (None when it is unset).
C17_RemoteElseRepoUrl ==
    op = "get_remote_url" =>
        /\ ret.ok
        /\ fs = pre
        /\ ret.val = IF is_repo(pre) /\ pre.remote.some THEN <<pre.remote.val>>
                     ELSE OptVal(repo_url)

C17_Witness ==
    /\ op = "get_remote_url"
    /\ ~is_repo(pre)
    /\ repo_url = Some(Repo_vfox_bun)
    /\ ret = Ok(<<Repo_vfox_bun>>)

(***************************************************************************)
(* The plugin catalog: VfoxPlugin::list and the static VFOX_PLUGIN_NAMES   *)
(***************************************************************************)

\* the plugin types of the installed-plugins index
PluginTypes == {"Vfox", "Asdf"}

Entry(dir, type) == [dir |-> dir, type |-> type]

\* the entries the index can hold: (dir, plugin type) pairs
IndexEntries ==
    { Entry(<<"plugins", "/", "bun">>, "Vfox"),
      Entry(<<"plugins", "/", "a">>, "Vfox"),
      Entry(<<"plugins", "/", "node">>, "Asdf") }

\* the names Settings.disable_tools can hold
ToolNames == {<<"bun">>, <<"node">>}

\* Path::file_name: the last component of dir
file_name(dir) ==
    LET slashes == {i \in 1..Len(dir) : dir[i] = "/"}
        last == IF slashes = {} THEN 0
                ELSE CHOOSE i \in slashes : \A j \in slashes : j <= i
    IN  Drop(dir, last)

\* VfoxPlugin::list without the filter on the plugin type of line 56
list_any_type(ix, dis) ==
    [ok |-> TRUE, err |-> "none",
     val |-> {file_name(e.dir) : e \in ix} \ dis]

\* VfoxPlugin::list: the names of the plugins it returns
list(ix, dis) ==
    LET vfox == {e \in ix : e.type = "Vfox"}
        names == {file_name(e.dir) : e \in vfox}
    IN  [ok |-> TRUE, err |-> "none",
         val |-> {n \in names : n \notin dis}]

\* the match of lines 30-36: the names of an Ok list, the empty set of an Err
names_of(r) == IF r.ok THEN r.val ELSE {}

\* the initializer of VFOX_PLUGIN_NAMES
catalog_init(ix, dis) == names_of(list(ix, dis))

\* a direct call of VfoxPlugin::list
List ==
    /\ listed' = [ix |-> index, dis |-> disabled, ret |-> list(index, disabled)]
    /\ UNCHANGED <<index, disabled, cell, seen, computed>>
    /\ UNCHANGED <<bridge, plugin, fs, tip, calls, threads>>

\* a plugin is installed or removed by another command of the tool
IndexChange ==
    /\ \E e \in IndexEntries :
          index' = IF e \in index THEN index \ {e} ELSE index \cup {e}
    /\ UNCHANGED <<disabled, cell, seen, computed, listed>>
    /\ UNCHANGED <<bridge, plugin, fs, tip, calls, threads>>

\* the settings are reloaded with another disable_tools
SettingsChange ==
    /\ \E n \in ToolNames :
          disabled' = IF n \in disabled THEN disabled \ {n} ELSE disabled \cup {n}
    /\ UNCHANGED <<index, cell, seen, computed, listed>>
    /\ UNCHANGED <<bridge, plugin, fs, tip, calls, threads>>

CatalogStep(t, to) ==
    /\ pc' = [pc EXCEPT ![t] = to]
    /\ UNCHANGED <<index, disabled, computed, listed>>
    /\ UNCHANGED <<bridge, plugin, fs, tip, calls, lock, loc, tret>>

\* a thread dereferences VFOX_PLUGIN_NAMES
CatalogAccess(t) ==
    /\ pc[t] = "idle"
    /\ CatalogStep(t, "force")
    /\ UNCHANGED <<cell, seen>>

\* Lazy::force that lets a thread start the initializer while another runs it
CatalogInitBegin_no_once(t) ==
    /\ pc[t] = "force"
    /\ cell.st # "init"
    /\ cell' = [cell EXCEPT !.st = "running"]
    /\ CatalogStep(t, "catalog_init")
    /\ UNCHANGED seen

\* Lazy::force on an empty cell: this thread runs the initializer, any
\* other thread that arrives waits in "force"
CatalogInitBegin(t) ==
    /\ pc[t] = "force"
    /\ cell.st = "uninit"
    /\ cell' = [cell EXCEPT !.st = "running"]
    /\ CatalogStep(t, "catalog_init")
    /\ UNCHANGED seen

\* the initializer returns and its value is stored in the cell
CatalogInitEnd(t) ==
    /\ pc[t] = "catalog_init"
    /\ cell' = [st |-> "init", val |-> catalog_init(index, disabled)]
    /\ computed' = computed + 1
    /\ pc' = [pc EXCEPT ![t] = "force"]
    /\ UNCHANGED <<index, disabled, seen, listed>>
    /\ UNCHANGED <<bridge, plugin, fs, tip, calls, lock, loc, tret>>

\* Lazy::force on a filled cell: the thread gets a reference to the value
CatalogRead(t) ==
    /\ pc[t] = "force"
    /\ cell.st = "init"
    /\ seen' = [seen EXCEPT ![t] = [some |-> TRUE, val |-> cell.val]]
    /\ CatalogStep(t, "idle")
    /\ UNCHANGED cell

InitCatalog ==
    /\ InitWith({<<"bun">>}) /\ fs = Absent /\ repo_url = None
    /\ CatalogIdle
    /\ BridgeIdle

NextCatalog ==
    \/ List
    \/ IndexChange
    \/ SettingsChange
    \/ \E t \in Threads :
          \/ CatalogAccess(t)
          \/ CatalogInitBegin(t)
          \/ CatalogInitEnd(t)
          \/ CatalogRead(t)

SpecCatalog == InitCatalog /\ [][NextCatalog]_vars

\* C11: the initializer of VFOX_PLUGIN_NAMES runs at most once, also when
\* several threads access it first at the same time; every thread that has
\* read the catalog holds the one value stored in the cell, whatever the
\* index and the settings have become since. The initializer maps a failed
\* list to the empty set; list has no failing return.
C11_ComputedOnceAndFrozen ==
    /\ computed <= 1
    /\ (cell.st = "init") <=> (computed = 1)
    /\ \A t \in Threads : seen[t].some => cell.st = "init" /\ seen[t].val = cell.val
    /\ names_of([ok |-> FALSE, val |-> {<<"bun">>}, err |-> "scan"]) = {}

C11_Witness ==
    /\ computed = 1
    /\ \A t \in Threads : seen[t].some
    /\ cell.val = {<<"bun">>}
    /\ list(index, disabled).val = {<<"a">>}

\* C12: list returns Ok with exactly the last components of the dirs of the
\* index entries of type Vfox whose name is not in disable_tools.
C12_ListVfoxNotDisabled ==
    listed # NotListed =>
        /\ listed.ret.ok
        /\ \A n \in {file_name(e.dir) : e \in IndexEntries} :
              n \in listed.ret.val <=>
                  /\ n \notin listed.dis
                  /\ \E e \in listed.ix : e.type = "Vfox" /\ file_name(e.dir) = n
        /\ listed.ret.val \subseteq {file_name(e.dir) : e \in listed.ix}

C12_Witness ==
    /\ listed.ix = IndexEntries
    /\ listed.dis = {<<"bun">>}
    /\ listed.ret.val = {<<"a">>}

(***************************************************************************)
(* The runtime bridge: vfox, runtime, mise_env and mise_path               *)
(***************************************************************************)

\* the most log messages the runtime emits during one computation
MaxLogs == 2

\* what the plugin's hook can return: EnvKey items for mise_env, paths for
\* mise_path
EnvKeys == {[key |-> "PATH", value |-> "x"], [key |-> "PATH", value |-> "y"],
            [key |-> "HOME", value |-> "x"]}
Paths == {"x", "y"}
Hooked(S) == {<<>>} \cup {<<a>> : a \in S} \cup {<<a, b>> : a \in S, b \in S}

\* IndexMap::insert: a new key goes last, a known key keeps its place and
\* takes the new value
insert(m, k, v) ==
    IF \E i \in 1..Len(m) : m[i].key = k
    THEN [i \in 1..Len(m) |-> IF m[i].key = k THEN [key |-> k, value |-> v] ELSE m[i]]
    ELSE Append(m, [key |-> k, value |-> v])

BridgeStep(to) ==
    /\ epc' = to
    /\ UNCHANGED <<catalog, plugin, fs, tip, calls, threads>>

\* mise_env or mise_path is called
BridgeCall ==
    /\ epc = "idle"
    /\ \E o \in {"mise_env", "mise_path"} : eop' = o
    /\ rx' = "none"
    /\ queued' = 0
    /\ lost' = 0
    /\ results' = <<>>
    /\ out' = <<>>
    /\ eret' = NotReturned
    /\ BridgeStep("vfox")

\* self.vfox(): a new Vfox and the receiver of its log channel
Vfox ==
    /\ epc = "vfox"
    /\ rx' = "open"
    /\ BridgeStep("let")
    /\ UNCHANGED <<eop, queued, lost, results, out, eret>>

\* the end of `let (vfox, _) = self.vfox();`: the pattern _ binds nothing,
\* so the receiver stays in the temporary tuple and is dropped with it
Let ==
    /\ epc = "let"
    /\ rx' = "dropped"
    /\ BridgeStep("runtime")
    /\ UNCHANGED <<eop, queued, lost, results, out, eret>>

\* self.runtime()?: the tokio runtime is built, or the error is returned
RuntimeBuild ==
    /\ epc = "runtime"
    /\ \/ BridgeStep("block_on") /\ UNCHANGED eret
       \/ BridgeStep("idle") /\ eret' = Err("Runtime")
    /\ UNCHANGED <<eop, rx, queued, lost, results, out>>

\* the runtime emits a log message while block_on runs the hook
Emit ==
    /\ epc = "block_on"
    /\ queued + lost < MaxLogs
    /\ IF rx = "open" THEN queued' = queued + 1 /\ UNCHANGED lost
       ELSE lost' = lost + 1 /\ UNCHANGED queued
    /\ BridgeStep("block_on")
    /\ UNCHANGED <<eop, rx, results, out, eret>>

\* block_on returns the hook's result, or its error is returned by `?`
BlockOn ==
    /\ epc = "block_on"
    /\ \/ /\ results' \in Hooked(IF eop = "mise_env" THEN EnvKeys ELSE Paths)
          /\ BridgeStep("collect")
          /\ UNCHANGED eret
       \/ /\ BridgeStep("idle")
          /\ eret' = Err("RuntimeExecution")
          /\ UNCHANGED results
    /\ UNCHANGED <<eop, rx, queued, lost, out>>

\* one turn of the for loop
Collect ==
    /\ epc = "collect"
    /\ results # <<>>
    /\ out' = IF eop = "mise_env"
              THEN insert(out, results[1].key, results[1].value)
              ELSE Append(out, results[1])
    /\ results' = Tail(results)
    /\ BridgeStep("collect")
    /\ UNCHANGED <<eop, rx, queued, lost, eret>>

\* Ok(Some(out))
BridgeReturn ==
    /\ epc = "collect"
    /\ results = <<>>
    /\ eret' = Ok(<<out>>)
    /\ BridgeStep("idle")
    /\ UNCHANGED <<eop, rx, queued, lost, results, out>>

InitEnv ==
    /\ InitWith({<<"a", "/", "bun">>}) /\ fs = WorkingCopy(Some(Repo_a_bun), "t1")
    /\ repo_url = None
    /\ CatalogIdle
    /\ BridgeIdle

NextEnv ==
    \/ BridgeCall
    \/ Vfox
    \/ Let
    \/ RuntimeBuild
    \/ Emit
    \/ BlockOn
    \/ Collect
    \/ BridgeReturn

SpecEnv == InitEnv /\ [][NextEnv]_vars

\* C18 as stated: while block_on runs the hook of mise_env or mise_path,
\* the receiver of the log channel opened by vfox() is alive, so no log
\* message the runtime emits is lost.
C18_ReceiverAliveDuringBlockOn ==
    /\ epc = "block_on" => rx = "open"
    /\ lost = 0

\* thread t is inside an operation and not waiting for a held mutex
Runnable(t) == pc[t] # "idle" /\ (pc[t] \in Acquiring => lock = 0)

\* C19: a thread that is about to call self.repo() does not hold the
\* mutex; the mutex is held exactly between a self.repo() call and the end
\* of the statement that made it, so a thread that has returned holds
\* nothing; and every thread inside an operation can run or waits for a
\* holder that can run: no interleaving of get_repo_url, get_remote_url,
\* current_sha_short, current_abbrev_ref, ensure_installed, update and
\* install deadlocks.
C19_LockPerCallNoDeadlock ==
    /\ \A t \in Threads : pc[t] \in Acquiring => lock # t
    /\ \A t \in Threads : (lock = t) <=> (pc[t] \in Holding)
    /\ \A t \in Threads : pc[t] = "idle" => lock # t
    /\ \A t \in Threads :
          pc[t] # "idle" => Runnable(t) \/ (lock \in Threads /\ Runnable(lock))

C19_Witness ==
    /\ lock = 1
    /\ pc[1] = "ensure_cloning"
    /\ pc[2] = "current_sha_short_repo"
    /\ tret[2] = "running"

\* C20 as stated: no thread's ensure_installed starts a clone when the
\* install path already exists.
C20_NoCloneIntoExistingPath ==
    \A t \in Threads : pc[t] = "ensure_cloning" => ~exists(fs)

====
